---- MODULE Spec2Model ----
(***************************************************************************)
(* Model of the Wartungsbot's proposal run (src/wartungsbot.py):           *)
(* terminideen_posten, with the terminideen, zusagestatus and              *)
(* termine_abfragen it calls. A run of the bot first reads its inputs      *)
(* (availability service, wiki query), then computes and posts.            *)
(* Dates are day offsets from "heute" (day 0); names are small integers so *)
(* that their order is the order sorted() gives them. Strings of the       *)
(* source are written without umlauts ('Bestaetigt', 'moeglich': ae and oe *)
(* for the umlauts). A text (page, table) is the sequence of its           *)
(* pieces; a piece holds neither the heading nor a closing div.            *)
(***************************************************************************)
EXTENDS Integers, Sequences, FiniteSets, TLC

\* ---------------------------------------------------------------- bounds
\* delta: number of days terminideen looks ahead (TerminideenZeitfenster)
MaxDelta == 2
\* number of appointments the wiki query returns
MaxTermine == 2
\* number of consecutive bot runs against the same wiki
MaxRuns == 2

\* dt.date(9999, 12, 31), the date of an appointment without TerminDatum
Fern == 9999
\* Python's None for spieldatum / 'Datum'
None == -1

Tage == 0 .. MaxDelta
\* weekday() of heute: Thursday or Sunday, so that the window holds both
\* Monday-Thursday and Friday-Sunday dates in either order
HeuteWochentage == {3, 6}

\* what the availability service holds for one date: no record (da = FALSE)
\* or the accept / decline lists
Eintraege ==
  { [da |-> FALSE, zusagen |-> {}, absagen |-> {}],
    [da |-> TRUE, zusagen |-> {}, absagen |-> {}],
    [da |-> TRUE, zusagen |-> {1}, absagen |-> {}],
    [da |-> TRUE, zusagen |-> {1, 2}, absagen |-> {}],
    [da |-> TRUE, zusagen |-> {1, 2}, absagen |-> {2}] }

\* rows of the SemanticMediaWiki query; a missing property is the empty
\* sequence, spieler is the player list as written on the appointment page
Vorlagen ==
  { [TerminLinkName |-> "A", TerminLink |-> <<"Termin:A">>, spieler |-> <<2, 1>>,
     Online |-> <<"Nein">>, TerminStatus |-> <<>>, TerminDatum |-> <<>>],
    [TerminLinkName |-> "A", TerminLink |-> <<"Termin:A2">>, spieler |-> <<1, 2>>,
     Online |-> <<"Ja">>, TerminStatus |-> <<"Vorgeschlagen">>, TerminDatum |-> <<1>>],
    [TerminLinkName |-> "C", TerminLink |-> <<"Termin:C">>, spieler |-> <<1>>,
     Online |-> <<>>, TerminStatus |-> <<"Bestaetigt">>, TerminDatum |-> <<0>>],
    [TerminLinkName |-> "D", TerminLink |-> <<>>, spieler |-> <<>>,
     Online |-> <<"Ja">>, TerminStatus |-> <<>>, TerminDatum |-> <<>>],
    [TerminLinkName |-> "Testkampagne", TerminLink |-> <<"Termin:Test">>, spieler |-> <<2>>,
     Online |-> <<"Ja">>, TerminStatus |-> <<"Angesetzt">>, TerminDatum |-> <<2>>] }

\* what the query returns: up to MaxTermine different rows, in any order
WikiAbfragen ==
  { w \in UNION { [1 .. n -> Vorlagen] : n \in 1 .. MaxTermine } :
      \A a, b \in DOMAIN w : a # b => w[a] # w[b] }

\* the Hauptseite before the first run, as a sequence of text pieces
Hauptseite == <<"Intro", "===Terminideen===", "alt", "</div>", "Termine", "</div>">>

VARIABLES
  wiki,            \* rows the wiki query returns (unchanged between runs)
  dienst,          \* what the availability service holds per date
  heute_wochentag, \* heute.weekday()
  seite,           \* text of the page 'Hauptseite'
  lauf,            \* number of bot runs started so far
  pc,              \* "bereit": no run under way; "abgefragt": inputs read
  fehler,          \* the availability request of this run raised
  statusliste,     \* terminideen: statusliste
  termine_geladen, \* self.termine_geladen
  termine,         \* self.termine
  kampagnen,       \* self.kampagnen
  ideen,           \* what terminideen returned
  ret,             \* terminideen_posten: ret
  ausgang,         \* what terminideen_posten logged
  edits,           \* number of edit() calls on 'Hauptseite'
  letzter          \* fehler and ausgang of the previous run

vars == <<wiki, dienst, heute_wochentag, seite, lauf, pc, fehler, statusliste,
          termine_geladen, termine, kampagnen, ideen, ret, ausgang, edits, letzter>>

\* ---------------------------------------------------------------- helpers
Menge(s) == { s[j] : j \in DOMAIN s }

\* sorted() on a list of names
RECURSIVE Sortiert(_)
Sortiert(S) ==
  IF S = {} THEN <<>>
  ELSE LET m == CHOOSE x \in S : \A y \in S : x <= y
       IN <<m>> \o Sortiert(S \ {m})

\* the names in the order of the page, without sorted()
namen_ungeordnet(text) == text

\* namen_auslesen: the names on the page, empty ones dropped, sorted
namen_auslesen(text) == Sortiert(Menge(text))

\* ---------------------------------------------------------------- zusagestatus
\* zusagestatus: one Status per date of [von, bis] the service has a record for
RECURSIVE zusagestatus(_, _)
zusagestatus(von, bis) ==
  IF von > bis THEN <<>>
  ELSE (IF dienst[von].da
        THEN <<[datum |-> von, zusagen |-> dienst[von].zusagen,
                absagen |-> dienst[von].absagen]>>
        ELSE <<>>) \o zusagestatus(von + 1, bis)

\* ---------------------------------------------------------------- termine_abfragen
\* the Termin (with its Kampagne) built from one row of the query
Termin(zeile) ==
  [kampagne |-> [name |-> zeile.TerminLinkName,
                 spieler |-> IF zeile.TerminLink # <<>>
                             THEN namen_auslesen(zeile.spieler) ELSE <<>>],
   link |-> IF zeile.TerminLink # <<>> THEN zeile.TerminLink[1] ELSE "",
   status |-> IF zeile.TerminStatus # <<>> THEN zeile.TerminStatus[1] ELSE "",
   datum |-> IF zeile.TerminDatum # <<>> THEN zeile.TerminDatum[1] ELSE Fern,
   online |-> IF zeile.Online # <<>> THEN zeile.Online[1] ELSE "Nein"]

\* ---------------------------------------------------------------- terminideen
enddatum == MaxDelta

Wochentag(datum) == (heute_wochentag + datum) % 7

\* only the appointments that are 'Angesetzt'
verbotenNurAngesetzt ==
  { termine[j].datum : j \in { m \in DOMAIN termine : termine[m].status = "Angesetzt" } }

\* dates of appointments that are 'Angesetzt' or 'Bestaetigt'
verboten ==
  { termine[j].datum : j \in { m \in DOMAIN termine :
                                 termine[m].status \in {"Angesetzt", "Bestaetigt"} } }

\* Kampagnen that are scanned: all but the 'Testkampagne'
Planbar == SelectSeq(kampagnen, LAMBDA k : k.name # "Testkampagne")

\* online of the first Termin whose Kampagne equals (name and spieler) this one
OnlineVon(kampagne) ==
  LET j == CHOOSE j \in DOMAIN termine :
             /\ termine[j].kampagne = kampagne
             /\ \A m \in 1 .. (j - 1) : termine[m].kampagne # kampagne
  IN termine[j].online

\* the first Status of statusliste with this date
StatusAm(datum) ==
  LET j == CHOOSE j \in DOMAIN statusliste :
             /\ statusliste[j].datum = datum
             /\ \A m \in 1 .. (j - 1) : statusliste[m].datum # datum
  IN statusliste[j]

HatStatus(datum) == \E j \in DOMAIN statusliste : statusliste[j].datum = datum

\* a decline that an accept of the same player cancels
AbgesagtOhneZusage(status, kampagne) ==
  ((status.absagen \ status.zusagen) \cap Menge(kampagne.spieler)) # {}

Abgesagt(status, kampagne) == (status.absagen \cap Menge(kampagne.spieler)) # {}

\* Thursday counted as a weekend day
GesperrtBisMittwoch(datum, online) ==
  datum \in verboten \/ (Wochentag(datum) < 3 /\ online = "Nein")

Gesperrt(datum, online) ==
  datum \in verboten \/ (Wochentag(datum) <= 3 /\ online = "Nein")

Vollzaehlig(kampagne, status) == Menge(kampagne.spieler) \subseteq status.zusagen

\* a full match does not replace a date already recorded
SchrittErsterBleibt(kampagne, online, datum, spieldatum) ==
  IF ~HatStatus(datum)
  THEN [weiter |-> FALSE, datum |-> datum, spieldatum |-> spieldatum]
  ELSE LET status == StatusAm(datum) IN
       IF Abgesagt(status, kampagne)
       THEN [weiter |-> TRUE, datum |-> datum + 1, spieldatum |-> spieldatum]
       ELSE IF Gesperrt(datum, online)
       THEN [weiter |-> TRUE, datum |-> datum + 1, spieldatum |-> spieldatum]
       ELSE IF Vollzaehlig(kampagne, status)
       THEN [weiter |-> FALSE, datum |-> datum,
             spieldatum |-> IF spieldatum = None THEN datum ELSE spieldatum]
       ELSE [weiter |-> TRUE, datum |-> datum + 1,
             spieldatum |-> IF spieldatum = None THEN datum ELSE spieldatum]

\* every partial date replaces the one recorded before
SchrittLetzterGilt(kampagne, online, datum, spieldatum) ==
  IF ~HatStatus(datum)
  THEN [weiter |-> FALSE, datum |-> datum, spieldatum |-> spieldatum]
  ELSE LET status == StatusAm(datum) IN
       IF Abgesagt(status, kampagne)
       THEN [weiter |-> TRUE, datum |-> datum + 1, spieldatum |-> spieldatum]
       ELSE IF Gesperrt(datum, online)
       THEN [weiter |-> TRUE, datum |-> datum + 1, spieldatum |-> spieldatum]
       ELSE IF Vollzaehlig(kampagne, status)
       THEN [weiter |-> FALSE, datum |-> datum, spieldatum |-> datum]
       ELSE [weiter |-> TRUE, datum |-> datum + 1, spieldatum |-> datum]

\* a date without a Status is skipped instead of ending the loop
SchrittOhneAbbruch(kampagne, online, datum, spieldatum) ==
  IF ~HatStatus(datum)
  THEN [weiter |-> TRUE, datum |-> datum + 1, spieldatum |-> spieldatum]
  ELSE LET status == StatusAm(datum) IN
       IF Abgesagt(status, kampagne)
       THEN [weiter |-> TRUE, datum |-> datum + 1, spieldatum |-> spieldatum]
       ELSE IF Gesperrt(datum, online)
       THEN [weiter |-> TRUE, datum |-> datum + 1, spieldatum |-> spieldatum]
       ELSE IF Vollzaehlig(kampagne, status)
       THEN [weiter |-> FALSE, datum |-> datum, spieldatum |-> datum]
       ELSE [weiter |-> TRUE, datum |-> datum + 1,
             spieldatum |-> IF spieldatum = None THEN datum ELSE spieldatum]

\* one pass of the while loop: weiter = FALSE is a break
Schritt(kampagne, online, datum, spieldatum) ==
  IF ~HatStatus(datum)
  THEN [weiter |-> FALSE, datum |-> datum, spieldatum |-> spieldatum]
  ELSE LET status == StatusAm(datum) IN
       IF Abgesagt(status, kampagne)
       THEN [weiter |-> TRUE, datum |-> datum + 1, spieldatum |-> spieldatum]
       ELSE IF Gesperrt(datum, online)
       THEN [weiter |-> TRUE, datum |-> datum + 1, spieldatum |-> spieldatum]
       ELSE IF Vollzaehlig(kampagne, status)
       THEN [weiter |-> FALSE, datum |-> datum, spieldatum |-> datum]
       ELSE [weiter |-> TRUE, datum |-> datum + 1,
             spieldatum |-> IF spieldatum = None THEN datum ELSE spieldatum]

\* the while loop: the spieldatum it ends with
RECURSIVE Suche(_, _, _, _)
Suche(kampagne, online, datum, spieldatum) ==
  IF datum <= enddatum
  THEN LET s == Schritt(kampagne, online, datum, spieldatum)
       IN IF s.weiter THEN Suche(kampagne, online, s.datum, s.spieldatum)
          ELSE s.spieldatum
  ELSE spieldatum

fehlende_zusagen(kampagne, spieldatum) ==
  IF spieldatum # None
  THEN SelectSeq(kampagne.spieler, LAMBDA sp : sp \notin StatusAm(spieldatum).zusagen)
  ELSE <<>>

\* the dictionary appended to ret for one Kampagne
Terminidee(kampagne) ==
  LET spieldatum == Suche(kampagne, OnlineVon(kampagne), 0, None)
  IN [Kampagne |-> kampagne.name, Datum |-> spieldatum,
      Fehlen |-> fehlende_zusagen(kampagne, spieldatum)]

\* the list terminideen returns: one dictionary per scanned Kampagne
Terminideen == [j \in DOMAIN Planbar |-> Terminidee(Planbar[j])]

\* ---------------------------------------------------------------- terminideen_posten
WOCHENTAGE ==
  <<"Montag", "Dienstag", "Mittwoch", "Donnerstag", "Freitag", "Samstag", "Sonntag">>

\* sorted(..., key=Datum) compares the keys of a list of two or more entries;
\* comparing None with a date or with None raises TypeError
TypeError(liste) == Len(liste) >= 2 /\ \E j \in DOMAIN liste : liste[j].Datum = None

\* x put behind the entries of the sorted list t whose Datum is not later
Einfuegen(x, t) ==
  LET k == Cardinality({ j \in DOMAIN t : t[j].Datum <= x.Datum })
  IN SubSeq(t, 1, k) \o <<x>> \o SubSeq(t, k + 1, Len(t))

\* sorted(liste, key=lambda x: x['Datum']): stable, ascending
RECURSIVE sorted(_)
sorted(liste) ==
  IF liste = <<>> THEN <<>>
  ELSE Einfuegen(liste[Len(liste)], sorted(SubSeq(liste, 1, Len(liste) - 1)))

Vorschlag(k) ==
  IF k.Datum # None /\ k.Fehlen = <<>> THEN "Termin moeglich!"
  ELSE IF k.Datum # None THEN "Termin eventuell moeglich."
  ELSE "kein Termin moeglich."

\* one row of tabelle: name, weekday name, formatted date, joined names, tier
Zeile(k) ==
  <<k.Kampagne,
    IF k.Datum # None THEN WOCHENTAGE[Wochentag(k.Datum) + 1] ELSE "",
    IF k.Datum # None THEN <<"%d.%m.%Y", k.Datum>> ELSE <<"Keinen Termin gefunden">>,
    k.Fehlen,
    Vorschlag(k)>>

farbe(vorschlag) ==
  IF vorschlag = "Termin moeglich!" THEN "#CCFF66"
  ELSE IF vorschlag = "Termin eventuell moeglich." THEN "#FFFF66"
  ELSE "#FA5858"

\* link of the first Termin whose Kampagne has this name
LinkVon(name) ==
  LET j == CHOOSE j \in DOMAIN termine :
             /\ termine[j].kampagne.name = name
             /\ \A m \in 1 .. (j - 1) : termine[m].kampagne.name # name
  IN termine[j].link

\* tabelle_formatieren: the opening div with the table head, one piece per
\* row (the linked name, the cells, the colour of the tier), the table end
\* and the closing div
tabelle_formatieren(tabelle) ==
  <<"<div>{|">>
  \o [j \in DOMAIN tabelle |->
        <<"|-", LinkVon(tabelle[j][1]), tabelle[j], farbe(tabelle[j][5])>>]
  \o <<"|-|}", "</div>">>

\* index of the first piece equal to x at or behind position ab, 0 if none
Finde(text, x, ab) ==
  IF \E j \in ab .. Len(text) : text[j] = x
  THEN CHOOSE j \in ab .. Len(text) :
         text[j] = x /\ \A m \in ab .. (j - 1) : text[m] # x
  ELSE 0

\* the closing div of the match is kept behind the new table
RECURSIVE ErsetzenMitEnde(_, _)
ErsetzenMitEnde(text, wikitext) ==
  LET a == Finde(text, "===Terminideen===", 1)
      e == IF a = 0 THEN 0 ELSE Finde(text, "</div>", a + 1)
  IN IF e = 0 THEN text
     ELSE SubSeq(text, 1, a - 1) \o <<"===Terminideen===", "\n">> \o wikitext
          \o <<"</div>">> \o ErsetzenMitEnde(SubSeq(text, e + 1, Len(text)), wikitext)

\* re.sub(r'(===Terminideen===)(.*?)(</div>)', r'\1\n' + wikitext, text, flags=re.S):
\* every stretch from the heading to the next closing div is replaced
RECURSIVE Ersetzen(_, _)
Ersetzen(text, wikitext) ==
  LET a == Finde(text, "===Terminideen===", 1)
      e == IF a = 0 THEN 0 ELSE Finde(text, "</div>", a + 1)
  IN IF e = 0 THEN text
     ELSE SubSeq(text, 1, a - 1) \o <<"===Terminideen===", "\n">> \o wikitext
          \o Ersetzen(SubSeq(text, e + 1, Len(text)), wikitext)

\* tabelle, built from the sorted list
Tabelle(liste) == [j \in DOMAIN liste |-> Zeile(liste[j])]

\* ---------------------------------------------------------------- the run
Init ==
  /\ wiki \in WikiAbfragen
  /\ dienst \in [Tage -> Eintraege]
  /\ heute_wochentag \in HeuteWochentage
  /\ seite = Hauptseite
  /\ lauf = 0
  /\ pc = "bereit"
  /\ fehler = FALSE
  /\ statusliste = <<>>
  /\ termine_geladen = FALSE
  /\ termine = <<>>
  /\ kampagnen = <<>>
  /\ ideen = <<>>
  /\ ret = <<>>
  /\ ausgang = ""
  /\ edits = 0
  /\ letzter = [fehler |-> FALSE, ausgang |-> ""]

\* a new run of the bot (a new process, the same wiki and service) reads its
\* inputs: terminideen, lines 366-373. antwort is what zusagestatus returns,
\* wirft whether the request raised.
Eingaben(antwort, wirft) ==
  /\ lauf' = lauf + 1
  /\ letzter' = [fehler |-> fehler, ausgang |-> ausgang]
  /\ fehler' = wirft
  /\ statusliste' = antwort
  /\ termine' = [j \in DOMAIN wiki |-> Termin(wiki[j])]
  /\ kampagnen' = [j \in DOMAIN wiki |-> Termin(wiki[j]).kampagne]
  /\ termine_geladen' = TRUE
  /\ ideen' = <<>>
  /\ ret' = <<>>
  /\ ausgang' = ""
  /\ pc' = "abgefragt"
  /\ UNCHANGED <<wiki, dienst, heute_wochentag, seite, edits>>

\* the availability request succeeds
Abfragen ==
  /\ pc = "bereit"
  /\ lauf < MaxRuns
  /\ Eingaben(zusagestatus(0, enddatum), FALSE)

\* the availability request raises: zusagestatus logs the error and returns []
AbfragenFehler ==
  /\ pc = "bereit"
  /\ lauf < MaxRuns
  /\ Eingaben(<<>>, TRUE)

\* the rest of the run: terminideen, lines 374-410, and terminideen_posten,
\* lines 447-468
Posten ==
  /\ pc = "abgefragt"
  /\ pc' = "bereit"
  /\ ideen' = Terminideen
  /\ IF TypeError(ideen')
     THEN /\ ret' = ideen'
          /\ ausgang' = "TypeError"
          /\ UNCHANGED <<seite, edits>>
     ELSE /\ ret' = sorted(ideen')
          /\ LET wikitext == tabelle_formatieren(Tabelle(ret'))
                 ergebnis == Ersetzen(seite, wikitext)
             IN IF ergebnis = seite
                THEN /\ ausgang' = "Keine Aktualisierung"
                     /\ UNCHANGED <<seite, edits>>
                ELSE /\ seite' = ergebnis
                     /\ edits' = edits + 1
                     /\ ausgang' = "gepostet"
  /\ UNCHANGED <<wiki, dienst, heute_wochentag, lauf, fehler, statusliste,
                 termine_geladen, termine, kampagnen, letzter>>

Next ==
  \/ Abfragen
  \/ AbfragenFehler
  \/ Posten

Spec == Init /\ [][Next]_vars

\* ---------------------------------------------------------------- terms of the specification
\* They are stated on the inputs of the scan (statusliste, termine), not on
\* the operators of the scan.
Roster(k) == Menge(k.spieler)

HasEntry(d) == \E j \in DOMAIN statusliste : statusliste[j].datum = d

Accepted(d) == UNION { statusliste[j].zusagen : j \in { m \in DOMAIN statusliste : statusliste[m].datum = d } }

Declined(d) == UNION { statusliste[j].absagen : j \in { m \in DOMAIN statusliste : statusliste[m].datum = d } }

\* the dates from today to today + horizon, cut at the first date without entry
ScannedRange == { d \in 0 .. enddatum : \A e \in 0 .. d : HasEntry(e) }

BlackoutSet ==
  { termine[j].datum : j \in { m \in DOMAIN termine :
                                 termine[m].status = "Angesetzt" \/ termine[m].status = "Bestaetigt" } }

\* the remote flag of a campaign is the Online value of its (first) appointment
RemoteCapable(k) == OnlineVon(k) # "Nein"

MondayToThursday(d) == Wochentag(d) \in {0, 1, 2, 3}

Eligible(k, d) ==
  /\ HasEntry(d)
  /\ Declined(d) \cap Roster(k) = {}
  /\ d \notin BlackoutSet
  /\ ~(MondayToThursday(d) /\ ~RemoteCapable(k))

FullAcceptance(k, d) == Roster(k) \subseteq Accepted(d)

EligibleDates(k) == { d \in ScannedRange : Eligible(k, d) }

FullDates(k) == { d \in EligibleDates(k) : FullAcceptance(k, d) }

Earliest(S) == CHOOSE d \in S : \A e \in S : d <= e

\* a run has ended: ideen[j] is the result of Planbar[j]
Computed == pc = "bereit" /\ lauf > 0

\* ---------------------------------------------------------------- claims
\* C1 (full-match preference): if the scanned range holds an eligible date on
\* which the whole roster accepted, the result has no missing names and its
\* date is the earliest such date, also behind an earlier partial date.
C1_FullMatchPreference ==
  Computed =>
    \A j \in DOMAIN ideen :
      FullDates(Planbar[j]) # {} =>
        /\ ideen[j].Datum = Earliest(FullDates(Planbar[j]))
        /\ ideen[j].Fehlen = <<>>

\* a two-player roster whose full match lies behind an eligible partial date
C1_Witness ==
  /\ Computed
  /\ \E j \in DOMAIN ideen :
       /\ Len(Planbar[j].spieler) = 2
       /\ FullDates(Planbar[j]) # {}
       /\ \E d \in EligibleDates(Planbar[j]) : d < Earliest(FullDates(Planbar[j]))
       /\ ideen[j].Datum = Earliest(FullDates(Planbar[j]))

\* C2 (fallback monotonicity): without an eligible full date in the scanned
\* range the result date is the earliest eligible date, however many names
\* are missing on later eligible dates, and None only without eligible date.
C2_FallbackMonotonicity ==
  Computed =>
    \A j \in DOMAIN ideen :
      FullDates(Planbar[j]) = {} =>
        ideen[j].Datum = IF EligibleDates(Planbar[j]) = {} THEN None
                       ELSE Earliest(EligibleDates(Planbar[j]))

\* two eligible partial dates, the later one with fewer missing names
C2_Witness ==
  /\ Computed
  /\ \E j \in DOMAIN ideen :
       /\ FullDates(Planbar[j]) = {}
       /\ \E d, e \in EligibleDates(Planbar[j]) :
            /\ d < e
            /\ Cardinality(Roster(Planbar[j]) \ Accepted(e))
                 < Cardinality(Roster(Planbar[j]) \ Accepted(d))
            /\ ideen[j].Datum = d

\* C3 (gap termination): no date on or behind a date of the horizon without
\* table entry is the result date; a fallback recorded before it is kept.
C3_GapTermination ==
  Computed =>
    \A j \in DOMAIN ideen : \A d \in 0 .. enddatum :
      ~HasEntry(d) =>
        /\ ideen[j].Datum = None \/ ideen[j].Datum < d
        /\ (\E e \in EligibleDates(Planbar[j]) : e < d) => ideen[j].Datum # None

\* a partial date, a gap, then a date with full acceptance: the partial date
\* is the result
C3_Witness ==
  /\ Computed
  /\ \E j \in DOMAIN ideen : \E d \in 0 .. enddatum : \E e \in (d + 1) .. enddatum :
       /\ ~HasEntry(d)
       /\ HasEntry(e)
       /\ Planbar[j].spieler # <<>>
       /\ FullAcceptance(Planbar[j], e)
       /\ Declined(e) \cap Roster(Planbar[j]) = {}
       /\ e \notin BlackoutSet
       /\ ~(MondayToThursday(e) /\ ~RemoteCapable(Planbar[j]))
       /\ ideen[j].Datum # None
       /\ ideen[j].Datum < d
       /\ ideen[j].Fehlen # <<>>

\* C4 (decline exclusion): a date on which a roster member declined is never
\* the result date, also when that member or every member accepted as well.
C4_DeclineExclusion ==
  Computed =>
    \A j \in DOMAIN ideen : \A d \in Tage :
      Declined(d) \cap Roster(Planbar[j]) # {} => ideen[j].Datum # d

\* the first scanned date has every member accepted and one of them declined,
\* and nothing else against it
C4_Witness ==
  /\ Computed
  /\ \E j \in DOMAIN ideen :
       /\ 0 \in ScannedRange
       /\ Declined(0) \cap Roster(Planbar[j]) # {}
       /\ FullAcceptance(Planbar[j], 0)
       /\ 0 \notin BlackoutSet
       /\ ~(MondayToThursday(0) /\ ~RemoteCapable(Planbar[j]))
       /\ ideen[j].Datum # 0

\* C5 (blackout exclusion): the date of an appointment that is 'Angesetzt' or
\* 'Bestaetigt' is never the result date of any campaign.
C5_BlackoutExclusion ==
  Computed => \A j \in DOMAIN ideen : ideen[j].Datum \notin BlackoutSet

\* a blackout date of a 'Bestaetigt' appointment that has full acceptance, no
\* decline and an allowed weekday is passed over
C5_Witness ==
  /\ Computed
  /\ \E j \in DOMAIN ideen : \E d \in ScannedRange \cap BlackoutSet :
       /\ \E m \in DOMAIN termine :
            termine[m].status = "Bestaetigt" /\ termine[m].datum = d
       /\ Planbar[j].spieler # <<>>
       /\ FullAcceptance(Planbar[j], d)
       /\ Declined(d) \cap Roster(Planbar[j]) = {}
       /\ ~(MondayToThursday(d) /\ ~RemoteCapable(Planbar[j]))
       /\ ideen[j].Datum # d

\* C6 (weekday/medium rule): a campaign that is not remote-capable never gets
\* a Monday-Thursday date; a Friday-Sunday date, and any date of a
\* remote-capable campaign, that has an entry in the scanned range, no
\* decline and no blackout is not disqualified: the result is that date, an
\* earlier one, or a later full match.
C6_WeekdayRule ==
  Computed =>
    \A j \in DOMAIN ideen :
      /\ (~RemoteCapable(Planbar[j]) /\ ideen[j].Datum # None)
           => ~MondayToThursday(ideen[j].Datum)
      /\ \A d \in ScannedRange :
           ( /\ Declined(d) \cap Roster(Planbar[j]) = {}
             /\ d \notin BlackoutSet
             /\ (~MondayToThursday(d) \/ RemoteCapable(Planbar[j])) )
           => /\ ideen[j].Datum # None
              /\ ideen[j].Datum <= d \/ ideen[j].Fehlen = <<>>

\* a campaign that is not remote-capable passes over a Thursday with full
\* acceptance and gets a Friday-Sunday date
C6_Witness ==
  /\ Computed
  /\ \E j \in DOMAIN ideen : \E d \in ScannedRange :
       /\ ~RemoteCapable(Planbar[j])
       /\ Wochentag(d) = 3
       /\ Planbar[j].spieler # <<>>
       /\ FullAcceptance(Planbar[j], d)
       /\ Declined(d) \cap Roster(Planbar[j]) = {}
       /\ d \notin BlackoutSet
       /\ ideen[j].Datum # None
       /\ ideen[j].Datum > d
       /\ ~MondayToThursday(ideen[j].Datum)

\* C7 (fetch failure is not an empty table): when the availability request
\* fails the run is aborted: terminideen_posten does not complete and no
\* report is published.
C7_FetchFailureAborts ==
  fehler => ausgang \notin {"gepostet", "Keine Aktualisierung"}

\* C8 (report ordering with null dates): classification completes without
\* error for every list of results, and the sorted list has ascending dates
\* with every None behind every date.
C8_NullDatesSortLast ==
  /\ ausgang # "TypeError"
  /\ ausgang \in {"gepostet", "Keine Aktualisierung"} =>
       \A a, b \in DOMAIN ret :
         a < b =>
           /\ (ret[a].Datum # None /\ ret[b].Datum # None)
                => ret[a].Datum <= ret[b].Datum
           /\ ret[a].Datum = None => ret[b].Datum = None

\* the report section of the page: from the heading to the next closing div
PublishedSection(text) ==
  LET a == Finde(text, "===Terminideen===", 1)
      e == IF a = 0 THEN 0 ELSE Finde(text, "</div>", a + 1)
  IN IF e = 0 THEN <<>> ELSE SubSeq(text, a, e)

\* the section terminideen_posten renders from the sorted results
RenderedSection(liste) ==
  <<"===Terminideen===", "\n">> \o tabelle_formatieren(Tabelle(liste))

\* a run gets as far as comparing the page with the new text
PostenStep == pc = "abgefragt" /\ pc' = "bereit" /\ ausgang' # "TypeError"

\* C9 (idempotent publication): when the rendered report equals the one on
\* the page, terminideen_posten edits nothing and logs the no-op outcome,
\* which differs from the outcome of an update (logged only with an edit);
\* a run behind a run that posted, with the same inputs, edits nothing.
C9_IdempotentPublication ==
  /\ [][PostenStep =>
          /\ PublishedSection(seite) = RenderedSection(ret')
               => (seite' = seite /\ edits' = edits /\ ausgang' = "Keine Aktualisierung")
          /\ ausgang' = "Keine Aktualisierung" => (seite' = seite /\ edits' = edits)
          /\ ausgang' = "gepostet" => (seite' # seite /\ edits' = edits + 1)
          /\ ausgang' \in {"Keine Aktualisierung", "gepostet"}]_vars
  /\ []((/\ Computed
         /\ lauf > 1
         /\ ausgang # "TypeError"
         /\ letzter.ausgang \in {"gepostet", "Keine Aktualisierung"}
         /\ letzter.fehler = fehler)
        => (ausgang = "Keine Aktualisierung" /\ PublishedSection(seite) = RenderedSection(ret)))

\* the second run finds the report the first run posted and edits nothing
C9_Witness ==
  /\ Computed
  /\ lauf = 2
  /\ letzter = [fehler |-> FALSE, ausgang |-> "gepostet"]
  /\ ~fehler
  /\ Len(ret) = 2
  /\ ausgang = "Keine Aktualisierung"
  /\ edits = 1
  /\ seite # Hauptseite

\* C10 (empty roster rejected): a campaign with an empty roster receives no
\* scheduling result.
C10_EmptyRosterRejected ==
  Computed => \A j \in DOMAIN ideen : Planbar[j].spieler # <<>>

\* C11 (missing list and tier): for every result, a non-null date has an
\* entry and the missing list holds exactly the roster members who did not
\* accept on it, in ascending order; a null date has an empty missing list; on
\* a non-null date the missing list is empty exactly when the whole roster
\* accepted; the tier of the row is "possible" iff the date is non-null and
\* nobody is missing, "maybe possible" iff the date is non-null and somebody is
\* missing, "not possible" iff the date is null.
Ascending(s) == \A a, b \in DOMAIN s : a < b => s[a] < s[b]

MissingOf(k, r) ==
  /\ r.Datum # None =>
       /\ HasEntry(r.Datum)
       /\ Menge(r.Fehlen) = Roster(k) \ Accepted(r.Datum)
       /\ Ascending(r.Fehlen)
  /\ r.Datum = None => r.Fehlen = <<>>

TierOf(r) ==
  /\ Zeile(r)[5] \in {"Termin moeglich!", "Termin eventuell moeglich.", "kein Termin moeglich."}
  /\ Zeile(r)[5] = "Termin moeglich!" <=> (r.Datum # None /\ r.Fehlen = <<>>)
  /\ Zeile(r)[5] = "Termin eventuell moeglich." <=> (r.Datum # None /\ r.Fehlen # <<>>)
  /\ Zeile(r)[5] = "kein Termin moeglich." <=> r.Datum = None

C11_MissingAndTier ==
  Computed =>
    \A j \in DOMAIN ideen :
      /\ MissingOf(Planbar[j], ideen[j])
      /\ ideen[j].Datum # None =>
           (ideen[j].Fehlen = <<>> <=> FullAcceptance(Planbar[j], ideen[j].Datum))
      /\ TierOf(ideen[j])

\* a roster the page lists as 2, 1 gets a date nobody accepted yet: both are
\* missing, in ascending order, and the row says "maybe possible"
C11_Witness ==
  /\ Computed
  /\ \E j \in DOMAIN ideen :
       /\ ideen[j].Datum # None
       /\ ideen[j].Fehlen = <<1, 2>>
       /\ Zeile(ideen[j])[5] = "Termin eventuell moeglich."
       /\ \E m \in DOMAIN wiki : wiki[m].spieler = <<2, 1>> /\ termine[m].kampagne = Planbar[j]

\* C11 as worded: the missing list is empty exactly when the date is a full
\* match, a non-null date on which the whole roster accepted; the rest as above.
C11_EmptyIffFullMatch ==
  Computed =>
    \A j \in DOMAIN ideen :
      /\ MissingOf(Planbar[j], ideen[j])
      /\ ideen[j].Fehlen = <<>> <=>
           (ideen[j].Datum # None /\ FullAcceptance(Planbar[j], ideen[j].Datum))
      /\ TierOf(ideen[j])

\* C12 (campaign independence): the date and the missing list of an entry are
\* those of the scan of its own roster under its own Online value, which is
\* what the entry gets when it stands alone in the list; no other entry of the
\* list, an entry of the same name and roster with another Online value
\* included, changes them.
OwnEntries == SelectSeq(termine, LAMBDA t : t.kampagne.name # "Testkampagne")

OwnDate(j) == Suche(Planbar[j], OwnEntries[j].online, 0, None)

C12_CampaignIndependence ==
  Computed =>
    \A j \in DOMAIN ideen :
      /\ OwnEntries[j].kampagne = Planbar[j]
      /\ ideen[j].Datum = OwnDate(j)
      /\ ideen[j].Fehlen = fehlende_zusagen(Planbar[j], OwnDate(j))

====
